---- MODULE Spec2Model ----
(***************************************************************************)
(* Model of the wb_valuation library (src/src/lib.rs): eight pure          *)
(* valuation formulas over f64, one of them (intrinsic_value) a loop.      *)
(*                                                                         *)
(* Numbers.  An f64 is modelled bit for bit: a sign, a mantissa of 53 bits *)
(* and an exponent, or +0.0, -0.0, +Inf, -Inf, NaN.  +, -, * and / give    *)
(* the exact result rounded to the nearest f64, ties to even, with         *)
(* overflow to Inf and gradual underflow, and the IEEE rules for the       *)
(* special values (signed zeros, x/0, Inf-Inf, NaN propagation,            *)
(* comparisons with NaN false).  f64::powf has no specified precision: a   *)
(* power is the set of the values it may come out as, every other          *)
(* operation one value.  Mantissas and the exact intermediate results are  *)
(* naturals of any size.                                                   *)
(***************************************************************************)
EXTENDS Integers, Sequences, FiniteSets

(***************************************************************************)
(* Natural numbers of any size, least significant limb first, LimbBits     *)
(* bits to a limb.  Carries are resolved by look-ahead rather than limb by *)
(* limb, and intermediate results are passed as operator arguments.        *)
(***************************************************************************)
LimbBits == 14
Base == 16384

Pow2(b) == <<1, 2, 4, 8, 16, 32, 64, 128, 256, 512, 1024, 2048, 4096, 8192, 16384>>[b + 1]

Limb(a, i) == IF i >= 1 /\ i <= Len(a) THEN a[i] ELSE 0

MaxOf(S) == CHOOSE i \in S : \A j \in S : j <= i

Max(i, j) == IF i < j THEN j ELSE i
Min(i, j) == IF i < j THEN i ELSE j

\* a without its most significant zero limbs
Trim(a) ==
    IF \A i \in 1..Len(a) : a[i] = 0 THEN <<>>
    ELSE SubSeq(a, 1, MaxOf({i \in 1..Len(a) : a[i] # 0}))

RECURSIVE NatOfInt(_)
NatOfInt(k) == IF k = 0 THEN <<>> ELSE <<k % Base>> \o NatOfInt(k \div Base)

\* a natural of at most two limbs as an integer
NatToInt(a) == Limb(a, 1) + Base * Limb(a, 2)

\* the limbs of the number whose columns are s, each in 0 .. 2 * Base - 2
Carried(s) ==
    LET carry(i) == \E j \in 1..(i - 1) :
                       /\ s[j] >= Base
                       /\ \A m \in (j + 1)..(i - 1) : s[m] = Base - 1
    IN  Trim([i \in 1..(Len(s) + 1) |->
                 IF carry(i) THEN (Limb(s, i) + 1) % Base ELSE Limb(s, i) % Base])

NatAdd(a, b) ==
    IF Len(a) <= 2 /\ Len(b) <= 2 THEN NatOfInt(NatToInt(a) + NatToInt(b))
    ELSE Carried([i \in 1..(IF Len(a) < Len(b) THEN Len(b) ELSE Len(a)) |->
                     Limb(a, i) + Limb(b, i)])

\* a - b for a >= b
NatSub(a, b) ==
    LET borrow(i) == \E j \in 1..(i - 1) :
                        /\ a[j] < Limb(b, j)
                        /\ \A m \in (j + 1)..(i - 1) : a[m] = Limb(b, m)
    IN  Trim([i \in 1..Len(a) |->
                 IF borrow(i) THEN (a[i] - Limb(b, i) - 1 + Base) % Base
                 ELSE (a[i] - Limb(b, i) + Base) % Base])

\* -1, 0 or 1 as a < b, a = b, a > b
NatCmp(a, b) ==
    IF Len(a) < Len(b) THEN -1
    ELSE IF Len(a) > Len(b) THEN 1
    ELSE IF a = b THEN 0
    ELSE IF \E i \in 1..Len(a) :
               a[i] < b[i] /\ \A j \in (i + 1)..Len(a) : a[j] = b[j]
    THEN -1
    ELSE 1

\* a * k for 0 <= k < Base
NatMulSmall(a, k) ==
    IF k = 0 \/ a = <<>> THEN <<>>
    ELSE IF Len(a) = 1 THEN NatOfInt(a[1] * k)
    ELSE Carried([i \in 1..(Len(a) + 1) |->
                     ((Limb(a, i) * k) % Base) + ((Limb(a, i - 1) * k) \div Base)])

NatShift(a) == IF a = <<>> THEN a ELSE <<0>> \o a

\* a * b, one limb of b at a time
RECURSIVE NatMulBy(_, _)
NatMulBy(a, b) ==
    IF b = <<>> THEN <<>>
    ELSE NatAdd(NatShift(NatMulBy(a, Tail(b))), NatMulSmall(a, b[1]))

NatMul(a, b) ==
    NatMulBy(IF Len(a) < Len(b) THEN b ELSE a, IF Len(a) < Len(b) THEN a ELSE b)

RECURSIVE NatPow(_, _)
NatPow(a, k) == IF k = 0 THEN <<1>> ELSE NatMul(NatPow(a, k - 1), a)

\* the number of bits of a
BitLen(a) ==
    IF a = <<>> THEN 0
    ELSE LimbBits * (Len(a) - 1)
         + Cardinality({b \in 0..(LimbBits - 1) : Pow2(b) <= a[Len(a)]})

\* bit i of a, bit 0 the least significant
Bit(a, i) == (Limb(a, (i \div LimbBits) + 1) \div Pow2(i % LimbBits)) % 2

\* whether one of the k least significant bits of a is set
AnyLowBit(a, k) ==
    \/ \E i \in 1..Len(a) : i <= k \div LimbBits /\ a[i] # 0
    \/ Limb(a, (k \div LimbBits) + 1) % Pow2(k % LimbBits) # 0

\* a * 2^k
ShiftLeft(a, k) ==
    Trim([i \in 1..(Len(a) + (k \div LimbBits) + 1) |->
             ((Limb(a, i - (k \div LimbBits)) * Pow2(k % LimbBits)) % Base)
             + ((Limb(a, i - (k \div LimbBits) - 1) * Pow2(k % LimbBits)) \div Base)])

\* a \div 2^k
ShiftRight(a, k) ==
    Trim([i \in 1..(Len(a) - (k \div LimbBits)) |->
             (Limb(a, i + (k \div LimbBits)) \div Pow2(k % LimbBits))
             + ((Limb(a, i + (k \div LimbBits) + 1) % Pow2(k % LimbBits))
                * Pow2(LimbBits - (k % LimbBits)))])

\* the largest k < Base with b * k <= r, four bits at a time: acc holds the
\* bits found, step the weight of the next
RECURSIVE QDigit(_, _, _, _)
QDigit(r, b, acc, step) ==
    IF step = 0 THEN acc
    ELSE QDigit(r, b,
                acc + step * MaxOf({k \in 0..15 :
                                       /\ acc + k * step < Base
                                       /\ NatCmp(NatMulSmall(b, acc + k * step), r) <= 0}),
                step \div 16)

DivBy(hq, r1, b, qd) == [q |-> <<qd>> \o hq, r |-> NatSub(r1, NatMulSmall(b, qd))]

DivDigit(hq, r1, b) ==
    IF NatCmp(r1, b) < 0 THEN [q |-> NatShift(hq), r |-> r1]
    ELSE DivBy(hq, r1, b, QDigit(r1, b, 0, 4096))

\* long division of the limbs i.. of a by b, the most significant limb first
RECURSIVE NatDivFrom(_, _, _)
NatDivFrom(a, b, i) ==
    IF i > Len(a) THEN [q |-> <<>>, r |-> <<>>]
    ELSE LET hd == NatDivFrom(a, b, i + 1)
         IN  IF hd.r = <<>> /\ a[i] = 0 THEN [q |-> NatShift(hd.q), r |-> <<>>]
             ELSE DivDigit(hd.q, Trim(<<a[i]>> \o hd.r), b)

\* quotient and remainder of a by b, b # 0
NatDivMod(a, b) ==
    IF Len(a) <= 2 /\ Len(b) <= 2
    THEN [q |-> NatOfInt(NatToInt(a) \div NatToInt(b)),
          r |-> NatOfInt(NatToInt(a) % NatToInt(b))]
    ELSE NatDivFrom(a, b, 1)

\* quotient and remainder of the limbs i.. of a by a small d, 0 < d < Base
DivSmallStep(hd, limb, d) ==
    [q |-> <<(hd.r * Base + limb) \div d>> \o hd.q, r |-> (hd.r * Base + limb) % d]

RECURSIVE DivSmallFrom(_, _, _)
DivSmallFrom(a, d, i) ==
    IF i > Len(a) THEN [q |-> <<>>, r |-> 0]
    ELSE DivSmallStep(DivSmallFrom(a, d, i + 1), a[i], d)

\* a \div d for a small d, 0 < d < Base
NatDivSmall(a, d) == Trim(DivSmallFrom(a, d, 1).q)

\* the k least significant bits of a
LowBits(a, k) == NatSub(a, ShiftLeft(ShiftRight(a, k), k))

(***************************************************************************)
(* f64 values: s * m * 2^e with a mantissa m of MantBits bits (fewer for a *)
(* subnormal, with e = MinExp), +0.0 and -0.0 (no mantissa), +Inf, -Inf    *)
(* and NaN.  +, -, * and / round the exact result to the nearest value,    *)
(* ties to even.                                                           *)
(***************************************************************************)
MantBits == 53
MinExp == -1074
MaxExp == 971

NaN == [k |-> "nan", s |-> 0, m |-> <<>>, e |-> 0]
Inf(sign) == [k |-> "inf", s |-> sign, m |-> <<>>, e |-> 0]

\* +0.0 and -0.0; 0.0 is +0.0
SignedZero(sign) == [k |-> "fin", s |-> sign, m |-> <<>>, e |-> 0]
Zero == [k |-> "fin", s |-> 1, m |-> <<>>, e |-> 0]

\* 1.0 = 2^52 * 2^-52 and 100.0 = 25 * 2^50 * 2^-46
One == [k |-> "fin", s |-> 1, m |-> <<0, 0, 0, 1024>>, e |-> -52]
Hundred == [k |-> "fin", s |-> 1, m |-> <<0, 0, 0, 1600>>, e |-> -46]

Fin(sign, m, e) == [k |-> "fin", s |-> sign, m |-> m, e |-> e]

IsNaN(x) == x.k = "nan"
IsFinite(x) == x.k = "fin"

\* x is +0.0 or -0.0
IsZero(x) == x.k = "fin" /\ x.m = <<>>

\* the value sign * q * 2^e, q of at most MantBits + 1 bits: a mantissa that
\* rounding carried to 2^MantBits is renormalised, too large an exponent is Inf
Packed(sign, q, e) ==
    IF q = <<>> THEN SignedZero(sign)
    ELSE IF BitLen(q) > MantBits
    THEN (IF e + 1 > MaxExp THEN Inf(sign) ELSE Fin(sign, ShiftRight(q, 1), e + 1))
    ELSE IF e > MaxExp THEN Inf(sign)
    ELSE Fin(sign, q, e)

\* dropping the k least significant bits of m rounds up: the first bit
\* dropped is set and either a later one is, or the last bit kept is (a tie)
RoundsUp(m, k) == Bit(m, k - 1) = 1 /\ (AnyLowBit(m, k - 1) \/ Bit(m, k) = 1)

RoundBy(sign, m, e, k) ==
    IF k <= 0 THEN Packed(sign, ShiftLeft(m, -k), e + k)
    ELSE Packed(sign,
                IF RoundsUp(m, k) THEN NatAdd(ShiftRight(m, k), <<1>>)
                ELSE ShiftRight(m, k),
                e + k)

\* the f64 nearest to sign * m * 2^e
Round(sign, m, e) ==
    IF m = <<>> THEN SignedZero(sign)
    ELSE RoundBy(sign, m, e, Max(BitLen(m) - MantBits, MinExp - e))

\* the quotient of a division with a last bit that tells whether it was exact
QuotSticky(dm) ==
    IF dm.r = <<>> THEN ShiftLeft(dm.q, 1) ELSE NatAdd(ShiftLeft(dm.q, 1), <<1>>)

RoundQuotBy(sign, num, den, e, j) ==
    Round(sign, QuotSticky(NatDivMod(ShiftLeft(num, j), den)), e - j - 1)

\* the f64 nearest to sign * (num / den) * 2^e, for num, den > 0
RoundQuot(sign, num, den, e) ==
    RoundQuotBy(sign, num, den, e, MantBits + 3 + Max(0, BitLen(den) - BitLen(num)))

\* n as f64, for a natural number n; i as f64, for an integer i
FromNat(n) == Round(1, n, 0)
FromInt(i) == Round(IF i < 0 THEN -1 ELSE 1, NatOfInt(IF i < 0 THEN -i ELSE i), 0)

\* t as f64, for a u32 t
FromU32(t) == FromNat(NatOfInt(t))

FNeg(x) == [x EXCEPT !.s = -x.s]
FAbs(x) == [x EXCEPT !.s = IF x.k = "nan" THEN 0 ELSE 1]

\* the bits by which the larger operand of a sum is shifted at most: what
\* lies further below only decides the rounding
Guard == 64

\* (sa * a + sb * b) * 2^e for signs sa, sb and a, b > 0; a sum that
\* cancels is +0.0
AddScaled(sa, a, sb, b, e) ==
    Round(IF sa = sb \/ NatCmp(a, b) > 0 THEN sa
          ELSE IF a = b THEN 1 ELSE sb,
          IF sa = sb THEN NatAdd(a, b)
          ELSE IF NatCmp(a, b) > 0 THEN NatSub(a, b)
          ELSE NatSub(b, a),
          e)

\* hi + lo for finite nonzero hi, lo with hi.e >= lo.e
AddAligned(hi, lo) ==
    AddScaled(hi.s, ShiftLeft(hi.m, Min(hi.e - lo.e, Guard)), lo.s, lo.m,
              hi.e - Min(hi.e - lo.e, Guard))

\* x + y; two zeros of different sign add up to +0.0
FAdd(x, y) ==
    IF IsNaN(x) \/ IsNaN(y) THEN NaN
    ELSE IF x.k = "inf" THEN (IF y.k = "inf" /\ y.s # x.s THEN NaN ELSE x)
    ELSE IF y.k = "inf" THEN y
    ELSE IF IsZero(x) THEN (IF IsZero(y) /\ x.s # y.s THEN Zero ELSE y)
    ELSE IF IsZero(y) THEN x
    ELSE AddAligned(IF x.e >= y.e THEN x ELSE y, IF x.e >= y.e THEN y ELSE x)

\* x - y
FSub(x, y) == FAdd(x, FNeg(y))

\* x * y
FMul(x, y) ==
    IF IsNaN(x) \/ IsNaN(y) THEN NaN
    ELSE IF x.k = "inf" \/ y.k = "inf"
    THEN (IF IsZero(x) \/ IsZero(y) THEN NaN ELSE Inf(x.s * y.s))
    ELSE IF IsZero(x) \/ IsZero(y) THEN SignedZero(x.s * y.s)
    ELSE Round(x.s * y.s, NatMul(x.m, y.m), x.e + y.e)

\* x / y
FDiv(x, y) ==
    IF IsNaN(x) \/ IsNaN(y) THEN NaN
    ELSE IF x.k = "inf" THEN (IF y.k = "inf" THEN NaN ELSE Inf(x.s * y.s))
    ELSE IF y.k = "inf" THEN SignedZero(x.s * y.s)
    ELSE IF IsZero(y) THEN (IF IsZero(x) THEN NaN ELSE Inf(x.s * y.s))
    ELSE IF IsZero(x) THEN SignedZero(x.s * y.s)
    ELSE RoundQuot(x.s * y.s, x.m, y.m, x.e - y.e)

\* the f64 of the literal num/den, for integers num and den > 0 below 2^31
Lit(num, den) == FDiv(FromInt(num), FromInt(den))

\* x == y, x < y, x <= y as f64 compares: false when either is NaN, and
\* -0.0 == +0.0
FEq(x, y) == ~IsNaN(x) /\ ~IsNaN(y) /\ (x = y \/ (IsZero(x) /\ IsZero(y)))

\* |x| < |y| for finite x, y
MagLt(x, y) ==
    /\ ~IsZero(y)
    /\ IsZero(x) \/ x.e < y.e \/ (x.e = y.e /\ NatCmp(x.m, y.m) < 0)

FLt(x, y) ==
    /\ ~IsNaN(x) /\ ~IsNaN(y) /\ ~FEq(x, y)
    /\ IF x.k = "inf" THEN x.s < 0
       ELSE IF y.k = "inf" THEN y.s > 0
       ELSE IF x.s # y.s THEN x.s < y.s
       ELSE IF x.s > 0 THEN MagLt(x, y)
       ELSE MagLt(y, x)

FLe(x, y) == FEq(x, y) \/ FLt(x, y)

\* whether a finite nonzero y is an integer, and an odd one
IsInteger(y) == y.e >= 0 \/ ~AnyLowBit(y.m, -y.e)
IsOdd(y) == y.e <= 0 /\ ~AnyLowBit(y.m, -y.e) /\ Bit(y.m, -y.e) = 1

\* the integer |y| of an integer y with |y| < 2^SmallBits
SmallBits == 4
IsSmall(y) == BitLen(y.m) + y.e <= SmallBits
SmallInt(y) == NatToInt(ShiftRight(y.m, -y.e))

(***************************************************************************)
(* f64::powf.  Its precision is not specified: the result is the exact     *)
(* power rounded to the nearest f64, or, when the exact power lies within  *)
(* 1/16 of the distance between two neighbouring f64 of the point halfway  *)
(* between them, either of the two.  A power is the set of these outcomes. *)
(* The exact power is computed as such for a positive integer exponent     *)
(* below 2^SmallBits, and as exp(y * ln x) to ExpBits - MantBits bits      *)
(* beyond the mantissa for any other.                                      *)
(***************************************************************************)
\* how far from the halfway point either neighbour is an outcome: in
\* sixteenths of the distance between the neighbours
TieSlack == 1

\* the k bits dropped from m leave the exact value within TieSlack
\* sixteenths of halfway: low16 is sixteen times the value of the bits
NearTie(low16, k) ==
    /\ NatCmp(ShiftLeft(<<8 - TieSlack>>, k), low16) <= 0
    /\ NatCmp(low16, ShiftLeft(<<8 + TieSlack>>, k)) <= 0

OutcomesBy(sign, m, e, k) ==
    IF k <= 0 THEN {Packed(sign, ShiftLeft(m, -k), e + k)}
    ELSE IF NearTie(NatMulSmall(LowBits(m, k), 16), k)
    THEN {Packed(sign, ShiftRight(m, k), e + k),
          Packed(sign, NatAdd(ShiftRight(m, k), <<1>>), e + k)}
    ELSE {RoundBy(sign, m, e, k)}

\* the f64 values that sign * m * 2^e may come out as
Outcomes(sign, m, e) ==
    IF m = <<>> THEN {SignedZero(sign)}
    ELSE OutcomesBy(sign, m, e, Max(BitLen(m) - MantBits, MinExp - e))

\* sign * |x|^n for finite x # 0 and an integer n >= 1: the exact power
PowInt(x, n, sign) == Outcomes(sign, NatPow(x.m, n), x.e * n)

\* fixed point: a natural number a stands for a * 2^-LogBits in ln, and for
\* a * 2^-ExpBits in exp
LogBits == 154
ExpBits == 98

\* ln 2 in fixed point
Ln2 == <<3340, 13327, 15787, 1010, 3680, 7739, 10994, 3961, 8007, 8575, 11356>>

MulFix(a, b) == ShiftRight(NatMul(a, b), LogBits)

\* sum + term / j + term * u2 / (j + 2) + term * u2^2 / (j + 4) + ...,
\* until a term no longer changes the sum
RECURSIVE AtanhFrom(_, _, _, _)
AtanhNext(sum, more, term, u2, j) ==
    IF more = sum THEN sum ELSE AtanhFrom(more, MulFix(term, u2), u2, j + 2)

AtanhFrom(sum, term, u2, j) ==
    AtanhNext(sum, NatAdd(sum, NatDivSmall(term, j)), term, u2, j)

\* atanh u = u + u^3 / 3 + u^5 / 5 + ..., for 0 <= u <= 1/5
Atanh(u) == AtanhFrom(<<>>, u, MulFix(u, u), 1)

\* ln(m / one) = 2 * atanh((m - one) / (m + one)) in magnitude, for m / one
\* in [3/4, 3/2)
LnNearOne(m, one) ==
    ShiftLeft(Atanh(NatDivMod(ShiftLeft(IF NatCmp(m, one) < 0 THEN NatSub(one, m)
                                        ELSE NatSub(m, one), LogBits),
                              NatAdd(m, one)).q), 1)

\* |n * ln 2 + s * a| for an integer n # 0, s in {-1, 1} and a < ln 2
LnSum(n, s, a) ==
    IF (n < 0) = (s < 0) THEN NatAdd(NatMulSmall(Ln2, IF n < 0 THEN -n ELSE n), a)
    ELSE NatSub(NatMulSmall(Ln2, IF n < 0 THEN -n ELSE n), a)

\* ln(m * 2^e) as a sign and a magnitude, m = (m / 2^b) * 2^b with m / 2^b
\* in [3/4, 3/2)
LnBy(m, e, b) ==
    IF e + b = 0
    THEN [s |-> IF NatCmp(m, ShiftLeft(<<1>>, b)) < 0 THEN -1 ELSE 1,
          v |-> LnNearOne(m, ShiftLeft(<<1>>, b))]
    ELSE [s |-> IF e + b < 0 THEN -1 ELSE 1,
          v |-> LnSum(e + b, IF NatCmp(m, ShiftLeft(<<1>>, b)) < 0 THEN -1 ELSE 1,
                      LnNearOne(m, ShiftLeft(<<1>>, b)))]

\* ln |x| for finite x # 0
Ln(x) == LnBy(x.m, x.e, BitLen(x.m) - 1 + Bit(x.m, BitLen(x.m) - 2))

\* sum + term + term * r / j + term * r^2 / (j * (j + 1)) + ..., until a
\* term no longer changes the sum
RECURSIVE ExpFrom(_, _, _, _)
ExpNext(sum, more, term, r, j) ==
    IF more = sum THEN sum
    ELSE ExpFrom(more, NatDivSmall(ShiftRight(NatMul(term, r), ExpBits), j), r, j + 1)

ExpFrom(sum, term, r, j) == ExpNext(sum, NatAdd(sum, term), term, r, j)

\* exp r = 1 + r + r^2 / 2 + ..., for 0 <= r < ln 2
Exp(r) == ExpFrom(<<>>, ShiftLeft(<<1>>, ExpBits), r, 1)

\* sign * 2^n * exp(r), r in the fixed point of ln
PowScaled(sign, n, r) == Outcomes(sign, Exp(ShiftRight(r, LogBits - ExpBits)), n - ExpBits)

\* sign * exp(sw * w) for w = n * ln 2 + r, 0 <= r < ln 2
PowSplit(sign, sw, n, r) ==
    IF sw > 0 THEN PowScaled(sign, n, r)
    ELSE IF r = <<>> THEN PowScaled(sign, -n, r)
    ELSE PowScaled(sign, -n - 1, NatSub(Ln2, r))

PowDiv(sign, sw, dm) == PowSplit(sign, sw, NatToInt(dm.q), dm.r)

\* sign * exp(sw * w * 2^e), w in the fixed point of ln: past 2^11 the power
\* overflows or underflows, below 2^-60 it is 1
PowExp(sign, sw, w, e) ==
    IF BitLen(w) + e - LogBits > 11
    THEN {IF sw > 0 THEN Inf(sign) ELSE SignedZero(sign)}
    ELSE IF BitLen(w) + e - LogBits < -60 THEN {Fin(sign, One.m, One.e)}
    ELSE PowDiv(sign, sw,
                NatDivMod(IF e >= 0 THEN ShiftLeft(w, e) ELSE ShiftRight(w, -e), Ln2))

PowLn(sign, y, ln) == PowExp(sign, y.s * ln.s, NatMul(y.m, ln.v), y.e)

\* sign * |x|^y for finite x # 0 and finite y # 0
PowFinite(x, y, sign) ==
    IF x.m = One.m /\ x.e = One.e THEN {Fin(sign, One.m, One.e)}
    ELSE IF IsInteger(y) /\ IsSmall(y) /\ y.s > 0 THEN PowInt(x, SmallInt(y), sign)
    ELSE PowLn(sign, y, Ln(x))

\* x^y for y = +Inf or -Inf
PowInfinite(x, y) ==
    IF x.k = "fin" /\ x.m = One.m /\ x.e = One.e THEN One
    ELSE IF (x.k = "fin" /\ MagLt(x, One)) = (y.s < 0) THEN Inf(1)
    ELSE Zero

\* x^y for x = +Inf or -Inf and x = +0.0 or -0.0, y finite and not zero
PowOfInf(x, y) ==
    IF y.s < 0 THEN SignedZero(IF IsOdd(y) THEN x.s ELSE 1)
    ELSE Inf(IF IsOdd(y) THEN x.s ELSE 1)

PowOfZero(x, y) ==
    IF y.s < 0 THEN Inf(IF IsOdd(y) THEN x.s ELSE 1)
    ELSE SignedZero(IF IsOdd(y) THEN x.s ELSE 1)

\* f64::powf(x, y): the set of its outcomes
Powf(x, y) ==
    IF IsZero(y) THEN {One}
    ELSE IF x = One THEN {One}
    ELSE IF IsNaN(x) \/ IsNaN(y) THEN {NaN}
    ELSE IF y.k = "inf" THEN {PowInfinite(x, y)}
    ELSE IF x.k = "inf" THEN {PowOfInf(x, y)}
    ELSE IF IsZero(x) THEN {PowOfZero(x, y)}
    ELSE IF x.s < 0 /\ ~IsInteger(y) THEN {NaN}
    ELSE PowFinite(x, y, IF x.s < 0 /\ IsOdd(y) THEN -1 ELSE 1)

(***************************************************************************)
(* The formulas of wb_valuation.  An Option<f64> is a record: def is TRUE  *)
(* for Some(val) and FALSE for None; a plain f64 result is Some-shaped.    *)
(***************************************************************************)
None == [def |-> FALSE, val |-> Zero]
Some(x) == [def |-> TRUE, val |-> x]

owners_earnings(net_income, depreciation_amortization, maintenance_capex) ==
    FSub(FAdd(net_income, depreciation_amortization), maintenance_capex)

\* return_on_equity giving the ratio instead of the percentage
return_on_equity_unscaled(net_income, shareholders_equity) ==
    IF FEq(shareholders_equity, Zero) THEN None
    ELSE Some(FDiv(net_income, shareholders_equity))

return_on_equity(net_income, shareholders_equity) ==
    IF FEq(shareholders_equity, Zero) THEN None
    ELSE Some(FMul(FDiv(net_income, shareholders_equity), Hundred))

\* return_on_net_tangible_assets guarding the net assets before intangibles
ronta_net_assets_guard(net_income, total_assets, total_liabilities, intangible_assets) ==
    LET net_tangible_assets ==
            FSub(FSub(total_assets, total_liabilities), intangible_assets)
    IN  IF FEq(FSub(total_assets, total_liabilities), Zero) THEN None
        ELSE Some(FMul(FDiv(net_income, net_tangible_assets), Hundred))

return_on_net_tangible_assets(net_income, total_assets, total_liabilities, intangible_assets) ==
    LET net_tangible_assets ==
            FSub(FSub(total_assets, total_liabilities), intangible_assets)
    IN  IF FEq(net_tangible_assets, Zero) THEN None
        ELSE Some(FMul(FDiv(net_income, net_tangible_assets), Hundred))

debt_to_equity(total_liabilities, shareholders_equity) ==
    IF FEq(shareholders_equity, Zero) THEN None
    ELSE Some(FDiv(total_liabilities, shareholders_equity))

earnings_per_share(net_income, shares_outstanding) ==
    IF FEq(shares_outstanding, Zero) THEN None
    ELSE Some(FDiv(net_income, shares_outstanding))

\* (power - 1.0) * 100.0, for each outcome of the powf call
CagrOf(powers) == {Some(FMul(FSub(p, One), Hundred)) : p \in powers}

\* eps_cagr refusing a negative ratio
eps_cagr_real_only(initial_eps, final_eps, years) ==
    IF FEq(initial_eps, Zero) \/ FLe(years, Zero) THEN {None}
    ELSE IF FLt(FDiv(final_eps, initial_eps), Zero) THEN {None}
    ELSE CagrOf(Powf(FDiv(final_eps, initial_eps), FDiv(One, years)))

\* eps_cagr taking the root over years - 1 compounding steps
eps_cagr_steps(initial_eps, final_eps, years) ==
    IF FEq(initial_eps, Zero) \/ FLe(years, Zero) THEN {None}
    ELSE CagrOf(Powf(FDiv(final_eps, initial_eps), FDiv(One, FSub(years, One))))

\* eps_cagr: the results the call can return, one per outcome of powf
eps_cagr(initial_eps, final_eps, years) ==
    IF FEq(initial_eps, Zero) \/ FLe(years, Zero) THEN {None}
    ELSE CagrOf(Powf(FDiv(final_eps, initial_eps), FDiv(One, years)))

\* the range 0..=years
range_from_zero == 1 - 1

\* intrinsic_value: the first period of the range 1..=years
RangeStart == 1

\* the range 1..years, without its end
range_exclusive(years) == years - 1

\* intrinsic_value: the last period of the range 1..=years
RangeLast(years) == years

\* growth compounded from the end of the first period on
future_earnings_late(initial_owners_earnings, growth_rate, t) ==
    {FMul(initial_owners_earnings, p) : p \in Powf(FAdd(One, growth_rate), FromU32(t - 1))}

\* intrinsic_value, loop body: initial * (1 + growth_rate)^t, for each
\* outcome of the powf call
future_earnings(initial_owners_earnings, growth_rate, t) ==
    {FMul(initial_owners_earnings, p) : p \in Powf(FAdd(One, growth_rate), FromU32(t))}

\* discounting one period less
present_value_early(earnings, discount_rate, t) ==
    {FDiv(earnings, p) : p \in Powf(FAdd(One, discount_rate), FromU32(t - 1))}

\* intrinsic_value, loop body: future_earnings / (1 + discount_rate)^t, for
\* each outcome of the powf call
present_value(earnings, discount_rate, t) ==
    {FDiv(earnings, p) : p \in Powf(FAdd(One, discount_rate), FromU32(t))}

\* intrinsic_value with a failure path for a total that is not finite
intrinsic_value_checked(total) == IF IsFinite(total) THEN Some(total) ELSE None

\* intrinsic_value: the value returned when the loop ends
intrinsic_value_result(total) == Some(total)

\* the call with the two rates in each other's place
inner_call_swapped(initial_owners_earnings, growth_rate, discount_rate, yrs) ==
    [initial_owners_earnings |-> initial_owners_earnings,
     growth_rate |-> discount_rate,
     discount_rate |-> growth_rate,
     years |-> yrs]

\* intrinsic_value_per_share: the arguments of its call of intrinsic_value
inner_call(initial_owners_earnings, growth_rate, discount_rate, yrs) ==
    [initial_owners_earnings |-> initial_owners_earnings,
     growth_rate |-> growth_rate,
     discount_rate |-> discount_rate,
     years |-> yrs]

\* intrinsic_value_per_share: None without a call when there are no shares
per_share_guard(shares_outstanding) == FEq(shares_outstanding, Zero)

\* intrinsic_value_per_share: the result once intrinsic_value has returned
per_share_result(value, shares_outstanding) ==
    Some(FDiv(value, shares_outstanding))

(***************************************************************************)
(* Inputs.                                                                 *)
(***************************************************************************)
MaxNum == 2
MaxYears == 3

\* amounts: the halves and integers up to MaxNum in magnitude
Amounts == {Lit(n, den) : n \in (-MaxNum)..MaxNum, den \in {1, 2}}

\* whole amounts up to MaxNum in magnitude
Whole == {Lit(n, 1) : n \in (-MaxNum)..MaxNum}

\* rates: -200%, -100%, 0, 50%, 100%
Rates == {Lit(n, 2) : n \in {-4, -2, 0, 1, 2}}

\* divisors: the amounts and -0.0
Divisors == Amounts \cup {SignedZero(-1)}

\* eps_cagr's years: -1/2, -0.0, 0, 1/2, 1, 2, 3
Counts == {Lit(n, 2) : n \in {-1, 0, 1, 2, 4, 6}} \cup {SignedZero(-1)}

\* shares outstanding: -1/2, -0.0, 0, 2
Shares == {Lit(n, 2) : n \in {-1, 0, 4}} \cup {SignedZero(-1)}

Periods == 0..MaxYears

\* the inputs of the unit tests
Lits(ints) == [i \in 1..Len(ints) |-> Lit(ints[i], 1)]
TestOwnersEarnings == {Lits(<<1000, 200, 150>>)}
TestRatio == {Lits(p) : p \in {<<500, 2000>>, <<500, 0>>, <<1000, 2000>>,
                                <<1000, 0>>, <<1000, 100>>}}
TestRonta == {Lits(p) : p \in {<<500, 3000, 1000, 500>>, <<500, 1500, 1000, 500>>}}
TestCagr == {<<Lit(p[1], 1), Lit(p[2], 1000), Lit(p[3], 1)>> :
                p \in {<<10, 14641, 5>>, <<0, 14641, 5>>, <<10, 14641, 0>>}}
TestYears == 10

\* calls in which a power lies halfway between two f64 or next to it:
\* 1.155^4 in eps_cagr(1.0, 1.155, 0.25) and in the fourth period of
\* intrinsic_value(1000.0, 0.155, 0.1, 4)
TiedCagr == {<<Lit(1, 1), Lit(1155, 1000), Lit(1, 4)>>}
TiedYears == 4
TiedDcf == <<Lit(1000, 1), Lit(155, 1000), Lit(1, 10)>>
TestDcf == <<Lit(1000, 1), Lit(5, 100), Lit(1, 10)>>
TestShares == Lits(<<100, 0>>)

(***************************************************************************)
(* State: one call of one function at a time.                              *)
(***************************************************************************)
VARIABLES
    pc,           \* "idle", "loop" (inside intrinsic_value's for), "returned"
    fn,           \* the function called
    args,         \* its f64 arguments, in order
    years,        \* its u32 argument years, 0 when it has none
    frame,        \* the parameters of the running intrinsic_value
    t,            \* intrinsic_value: the loop variable, RangeStart - 1 before
    total_value,  \* intrinsic_value: the accumulator
    ret           \* the result, once returned

vars == <<pc, fn, args, years, frame, t, total_value, ret>>

NoFrame == inner_call(Zero, Zero, Zero, 0)

Init ==
    /\ pc = "idle"
    /\ fn = "none"
    /\ args = <<>>
    /\ years = 0
    /\ frame = NoFrame
    /\ t = 0
    /\ total_value = Zero
    /\ ret = None

\* a function without a loop is called and returns
Return(name, a, yrs, result) ==
    /\ pc' = "returned"
    /\ fn' = name
    /\ args' = a
    /\ years' = yrs
    /\ ret' = result
    /\ UNCHANGED <<frame, t, total_value>>

\* intrinsic_value is entered: let mut total_value = 0.0
Enter(name, a, f) ==
    /\ pc' = "loop"
    /\ fn' = name
    /\ args' = a
    /\ years' = f.years
    /\ frame' = f
    /\ t' = RangeStart - 1
    /\ total_value' = Zero
    /\ UNCHANGED ret

OwnersEarnings ==
    /\ pc = "idle"
    /\ \E a \in (Amounts \X Amounts \X Amounts) \cup TestOwnersEarnings :
         Return("owners_earnings", a, 0, Some(owners_earnings(a[1], a[2], a[3])))

ReturnOnEquity ==
    /\ pc = "idle"
    /\ \E a \in (Amounts \X Divisors) \cup TestRatio :
         Return("return_on_equity", a, 0, return_on_equity(a[1], a[2]))

ReturnOnNetTangibleAssets ==
    /\ pc = "idle"
    /\ \E a \in (Amounts \X Whole \X Whole \X Whole) \cup TestRonta :
         Return("return_on_net_tangible_assets", a, 0,
                return_on_net_tangible_assets(a[1], a[2], a[3], a[4]))

DebtToEquity ==
    /\ pc = "idle"
    /\ \E a \in (Amounts \X Divisors) \cup TestRatio :
         Return("debt_to_equity", a, 0, debt_to_equity(a[1], a[2]))

EarningsPerShare ==
    /\ pc = "idle"
    /\ \E a \in (Amounts \X Divisors) \cup TestRatio :
         Return("earnings_per_share", a, 0, earnings_per_share(a[1], a[2]))

EpsCagr ==
    /\ pc = "idle"
    /\ \E a \in (Amounts \X Amounts \X Counts) \cup TestCagr \cup TiedCagr :
         \E result \in eps_cagr(a[1], a[2], a[3]) : Return("eps_cagr", a, 0, result)

\* an amount whose multiples overflow: 2^1023
Huge == [k |-> "fin", s |-> 1, m |-> <<0, 0, 0, 1024>>, e |-> 971]

DcfInputs ==
    ((Amounts \cup {Huge}) \X Rates \X Rates \X Periods)
        \cup {TestDcf \o <<TestYears>>, TiedDcf \o <<TiedYears>>}

IntrinsicValue ==
    /\ pc = "idle"
    /\ \E a \in DcfInputs :
         Enter("intrinsic_value", SubSeq(a, 1, 3), inner_call(a[1], a[2], a[3], a[4]))

\* one iteration of for t in 1..=years
IntrinsicValueLoop ==
    /\ pc = "loop"
    /\ t + 1 <= RangeLast(frame.years)
    /\ t' = t + 1
    /\ \E earnings \in future_earnings(frame.initial_owners_earnings,
                                       frame.growth_rate, t + 1) :
         \E value \in present_value(earnings, frame.discount_rate, t + 1) :
           total_value' = FAdd(total_value, value)
    /\ UNCHANGED <<pc, fn, args, years, frame, ret>>

\* the range is exhausted: intrinsic_value returns total_value to its caller
IntrinsicValueReturn ==
    /\ pc = "loop"
    /\ fn = "intrinsic_value"
    /\ ~(t + 1 <= RangeLast(frame.years))
    /\ pc' = "returned"
    /\ ret' = intrinsic_value_result(total_value)
    /\ UNCHANGED <<fn, args, years, frame, t, total_value>>

PerShareInputs ==
    (Whole \X Rates \X Rates \X Periods \X Shares)
        \cup {TestDcf \o <<TestYears, n>> : n \in {TestShares[1], TestShares[2]}}

IntrinsicValuePerShare ==
    /\ pc = "idle"
    /\ \E a \in PerShareInputs :
         LET b == SubSeq(a, 1, 3) \o <<a[5]>>
         IN  IF per_share_guard(a[5])
             THEN /\ Return("intrinsic_value_per_share", b, a[4], None)
             ELSE /\ Enter("intrinsic_value_per_share", b,
                           inner_call(a[1], a[2], a[3], a[4]))

IntrinsicValuePerShareReturn ==
    /\ pc = "loop"
    /\ fn = "intrinsic_value_per_share"
    /\ ~(t + 1 <= RangeLast(frame.years))
    /\ pc' = "returned"
    /\ ret' = per_share_result(intrinsic_value_result(total_value).val, args[4])
    /\ UNCHANGED <<fn, args, years, frame, t, total_value>>

Next ==
    \/ OwnersEarnings
    \/ ReturnOnEquity
    \/ ReturnOnNetTangibleAssets
    \/ DebtToEquity
    \/ EarningsPerShare
    \/ EpsCagr
    \/ IntrinsicValue
    \/ IntrinsicValueLoop
    \/ IntrinsicValueReturn
    \/ IntrinsicValuePerShare
    \/ IntrinsicValuePerShareReturn

Spec == Init /\ [][Next]_vars

(***************************************************************************)
(* What the specification says of the results.                             *)
(***************************************************************************)
Returned(name) == pc = "returned" /\ fn = name

\* |x - y| < eps and |x - y| <= eps
Within(x, y, eps) == FLt(FAbs(FSub(x, y)), eps)
Close(x, y, eps) == FLe(FAbs(FSub(x, y)), eps)

\* the term of period i, v * (1 + g)^i / (1 + d)^i: one value for each pair
\* of outcomes of the two powf calls
TermsOf(v, growths, discounts) ==
    {FDiv(FMul(v, pg), pd) : pg \in growths, pd \in discounts}

Terms(v, g, d, i) ==
    TermsOf(v, Powf(FAdd(One, g), FromU32(i)), Powf(FAdd(One, d), FromU32(i)))

\* the terms of periods 1..n, added in ascending order
SumsWith(sums, terms) == {FAdd(s, x) : s \in sums, x \in terms}

RECURSIVE Sums(_, _, _, _)
Sums(v, g, d, n) ==
    IF n = 0 THEN {Zero} ELSE SumsWith(Sums(v, g, d, n - 1), Terms(v, g, d, n))

\* C1: return_on_equity, debt_to_equity and earnings_per_share are None
\* exactly when their second argument is 0, whatever the first; otherwise
\* they are first / second, times 100 for return_on_equity only.
C1_RatioGuards ==
    /\ Returned("return_on_equity") =>
           /\ ~ret.def <=> IsZero(args[2])
           /\ ret.def => ret.val = FMul(FDiv(args[1], args[2]), Hundred)
    /\ Returned("debt_to_equity") =>
           /\ ~ret.def <=> IsZero(args[2])
           /\ ret.def => ret.val = FDiv(args[1], args[2])
    /\ Returned("earnings_per_share") =>
           /\ ~ret.def <=> IsZero(args[2])
           /\ ret.def => ret.val = FDiv(args[1], args[2])

\* return_on_equity returned a percentage that differs from the plain ratio
C1_Witness ==
    /\ Returned("return_on_equity")
    /\ ret.def
    /\ ~IsZero(args[1])
    /\ ret.val # FDiv(args[1], args[2])

\* C2: return_on_net_tangible_assets is None exactly when total_assets -
\* total_liabilities - intangible_assets is 0, and otherwise net_income over
\* that difference times 100; no single term being zero makes it None.
C2_NetTangibleGuard ==
    Returned("return_on_net_tangible_assets") =>
        /\ ~ret.def <=> IsZero(FSub(FSub(args[2], args[3]), args[4]))
        /\ ret.def =>
               ret.val = FMul(FDiv(args[1], FSub(FSub(args[2], args[3]), args[4])),
                              Hundred)

\* a defined result with total_assets = 0 and equal assets and liabilities
C2_Witness ==
    /\ Returned("return_on_net_tangible_assets")
    /\ IsZero(args[2])
    /\ IsZero(args[3])
    /\ ~IsZero(args[1])
    /\ ret.def
    /\ IsFinite(ret.val)

\* the values ((f / i)^(1 / y) - 1) * 100 can take
CagrValues(i, f, y) ==
    {FMul(FSub(p, One), Hundred) : p \in Powf(FDiv(f, i), FDiv(One, y))}

\* C3: eps_cagr(i, f, y) is None exactly when i = 0 or y <= 0; every other
\* input, a negative ratio f / i included, gives the defined value
\* ((f / i)^(1 / y) - 1) * 100.
C3_CagrGuard ==
    Returned("eps_cagr") =>
        /\ ~ret.def <=> (IsZero(args[1]) \/ FLe(args[3], Zero))
        /\ ret.def => ret.val \in CagrValues(args[1], args[2], args[3])

\* a negative ratio under a fractional exponent came back as a defined NaN
C3_Witness ==
    /\ Returned("eps_cagr")
    /\ FLt(FDiv(args[2], args[1]), Zero)
    /\ args[3] = Lit(2, 1)
    /\ ret.def
    /\ IsNaN(ret.val)

\* C4: intrinsic_value_per_share(v, g, d, years, shares) is None exactly when
\* shares = 0, for every v, g, d and years; otherwise it is the sum that
\* intrinsic_value(v, g, d, years) returns, divided by shares.
C4_PerShare ==
    Returned("intrinsic_value_per_share") =>
        /\ ~ret.def <=> IsZero(args[4])
        /\ ret.def =>
               \E s \in Sums(args[1], args[2], args[3], years) :
                   ret.val = FDiv(s, args[4])

\* a per-share value over MaxYears periods with different rates
C4_Witness ==
    /\ Returned("intrinsic_value_per_share")
    /\ years = MaxYears
    /\ args[2] # args[3]
    /\ ret.def
    /\ IsFinite(ret.val)
    /\ ~IsZero(ret.val)

\* C5, in every state of a call of intrinsic_value: the periods added so far
\* are 1..t with t <= years, the running total is the sum of their terms, and
\* the value returned is the running total after period years.
C5_RunningTotal ==
    fn = "intrinsic_value" =>
        /\ t \in 0..years
        /\ total_value \in Sums(args[1], args[2], args[3], t)
        /\ pc = "returned" => t = years /\ ret = Some(total_value)

\* C5: intrinsic_value adds one term per period, for t = 1, 2, ..., years in
\* ascending order, none skipped or repeated, the term of period t being
\* v * (1 + g)^t / (1 + d)^t; the running total is the sum of the terms of
\* 1..t and the result is the total after period years.
C5_AscendingSum ==
    /\ []C5_RunningTotal
    /\ [][(fn = "intrinsic_value" /\ pc = "loop" /\ pc' = "loop") =>
              /\ t' = t + 1
              /\ \E x \in Terms(args[1], args[2], args[3], t + 1) :
                     total_value' = FAdd(total_value, x)]_vars

\* intrinsic_value(1000.0, 0.155, 0.1, 4) has returned 4525.63125: the sum
\* of its four terms with 1.155^4 rounded away from the nearest f64
C5_Witness ==
    /\ Returned("intrinsic_value")
    /\ args = TiedDcf
    /\ years = TiedYears
    /\ t = TiedYears
    /\ ret.val = Lit(452563125, 100000)
    /\ Cardinality(Sums(args[1], args[2], args[3], years)) > 1

\* C6: intrinsic_value(v, g, d, 0) is a defined 0 for all v, g, d, also for
\* d = -1 and g = -1: with no period the loop body never runs.
C6_NoPeriods ==
    (Returned("intrinsic_value") /\ years = 0) =>
        /\ ret = Some(Zero)
        /\ t = 0
        /\ total_value = Zero

\* intrinsic_value(v, -1, -1, 0) has returned, for a v that is not 0
C6_Witness ==
    /\ Returned("intrinsic_value")
    /\ years = 0
    /\ ~IsZero(args[1])
    /\ args[2] = Lit(-1, 1)
    /\ args[3] = Lit(-1, 1)

\* C7: owners_earnings and intrinsic_value have no failure path.
\* owners_earnings(a, b, c) is the number a + b - c; intrinsic_value returns
\* a number for every (v, g, d, years), never None, also for discount_rate =
\* -1 with years >= 1, where the divisor is zero.
C7_Total ==
    /\ Returned("owners_earnings") =>
           /\ ret.def
           /\ ret.val = FSub(FAdd(args[1], args[2]), args[3])
    /\ Returned("intrinsic_value") =>
           /\ ret.def
           /\ ret.val.k \in {"fin", "inf", "nan"}

\* intrinsic_value has returned after dividing by zero
C7_Witness ==
    /\ Returned("intrinsic_value")
    /\ args[3] = Lit(-1, 1)
    /\ years >= 1
    /\ ret.def
    /\ ~IsFinite(ret.val)

\* 7811.80275662085, 78.1180275662085, 77.2173 and the tolerances
RefDigits == NatAdd(NatMul(NatOfInt(78118027), NatOfInt(10000000)), NatOfInt(5662085))
RefValue == FDiv(FromNat(RefDigits), FromNat(NatMul(NatOfInt(100000), NatOfInt(1000000))))
RefPerShare == FDiv(FromNat(RefDigits), FromNat(NatMul(NatOfInt(10000000), NatOfInt(1000000))))
TestPerShare == Lit(772173, 10000)
Millionth == Lit(1, 1000000)

\* C8: intrinsic_value(1000, 0.05, 0.1, 10) is within 0.000001 of
\* 7811.80275662085; intrinsic_value_per_share with 100 shares is that value
\* divided by 100, about 78.1180275662085, and within 1.0 of 77.2173.
C8_Reference ==
    /\ (Returned("intrinsic_value") /\ args = TestDcf /\ years = TestYears) =>
           /\ ret.def
           /\ Within(ret.val, RefValue, Millionth)
    /\ (/\ Returned("intrinsic_value_per_share")
        /\ args = TestDcf \o <<Hundred>>
        /\ years = TestYears) =>
           /\ ret.def
           /\ ret.val = FDiv(total_value, Hundred)
           /\ Within(total_value, RefValue, Millionth)
           /\ Within(ret.val, RefPerShare, Millionth)
           /\ Within(ret.val, TestPerShare, One)

\* the per-share test call has returned, its ten terms having added up to
\* the f64 nearest 7811.80275662085
C8_Witness ==
    /\ Returned("intrinsic_value_per_share")
    /\ args = TestDcf \o <<Hundred>>
    /\ years = TestYears
    /\ t = TestYears
    /\ total_value = RefValue
    /\ ret.def
    /\ IsFinite(ret.val)

\* the test call eps_cagr(10.0, 14.641, 5.0)
CagrTestCall == <<Lit(10, 1), Lit(14641, 1000), Lit(5, 1)>>

\* the rate r compounded over the five years: (1 + r / 100)^5
Compounded(r) == Powf(FAdd(One, FDiv(r, Hundred)), FromU32(5))

\* C9 as the specification has it: eps_cagr(10.0, 14.641, 5.0) is a defined r
\* that agrees with 7.9996 to its four decimals, is within 0.1 of 7.9, has
\* (1 + r / 100)^5 = 1.4641 and 7.8 < r < 8.0.
C9_Original ==
    (Returned("eps_cagr") /\ args = CagrTestCall) =>
        /\ ret.def
        /\ Within(ret.val, Lit(79996, 10000), Lit(5, 100000))
        /\ Within(ret.val, Lit(79, 10), Lit(1, 10))
        /\ \A p \in Compounded(ret.val) : FEq(p, Lit(14641, 10000))
        /\ FLt(Lit(78, 10), ret.val) /\ FLt(ret.val, Lit(8, 1))

\* C9, amended: eps_cagr(10.0, 14.641, 5.0) is a defined r that agrees with
\* 7.9230 to four decimals, is within 0.1 of 7.9, has (1 + r / 100)^5 within
\* 0.000001 of 1.4641 and 7.8 < r < 8.0.
C9_Amended ==
    (Returned("eps_cagr") /\ args = CagrTestCall) =>
        /\ ret.def
        /\ Within(ret.val, Lit(79230, 10000), Lit(5, 100000))
        /\ Within(ret.val, Lit(79, 10), Lit(1, 10))
        /\ \A p \in Compounded(ret.val) : Within(p, Lit(14641, 10000), Millionth)
        /\ FLt(Lit(78, 10), ret.val) /\ FLt(ret.val, Lit(8, 1))

\* the test call has returned a defined finite rate
C9_Witness ==
    /\ Returned("eps_cagr")
    /\ args = CagrTestCall
    /\ ret.def
    /\ IsFinite(ret.val)

\* the factors k of the linearity check
Scales == {Lit(n, 2) : n \in {-2, 0, 1, 3}}

\* C10 as the specification has it: with growth_rate = discount_rate # -1,
\* intrinsic_value(v, r, r, years) = years * v for every v and years >= 0;
\* and whenever d # -1 the result is linear in v: intrinsic_value(0, g, d,
\* years) = 0 and intrinsic_value(k * v, g, d, years) = k *
\* intrinsic_value(v, g, d, years).
C10_Original ==
    (Returned("intrinsic_value") /\ args[3] # Lit(-1, 1)) =>
        /\ args[2] = args[3] => FEq(ret.val, FMul(FromU32(years), args[1]))
        /\ IsZero(args[1]) => FEq(ret.val, Zero)
        /\ \A k \in Scales :
               \A s \in Sums(FMul(k, args[1]), args[2], args[3], years) :
                   FEq(s, FMul(k, ret.val))

\* x is a normal number: finite, not zero, with a full mantissa
Normal(x) == x.k = "fin" /\ BitLen(x.m) = MantBits

\* what period i of intrinsic_value(v, g, d, ..) computes: the two powers,
\* the product and the quotient
PeriodQuotient(pg, pd, fe) ==
    [growth |-> pg, discount |-> pd, future |-> fe, present |-> FDiv(fe, pd)]

PeriodValues(v, pg, pd) == PeriodQuotient(pg, pd, FMul(v, pg))

\* one record for each pair of outcomes of the two powf calls
PeriodsWith(v, growths, discounts) ==
    {PeriodValues(v, pg, pd) : pg \in growths, pd \in discounts}

PeriodsOf(v, g, d, i) ==
    PeriodsWith(v, Powf(FAdd(One, g), FromU32(i)), Powf(FAdd(One, d), FromU32(i)))

\* the period neither overflows nor underflows: its powers, product and
\* quotient are normal numbers, or zero because v or 1 + g is
TamePeriod(v, g, p) ==
    /\ Normal(p.discount)
    /\ \/ IsZero(FAdd(One, g))
       \/ /\ Normal(p.growth)
          /\ \/ IsZero(v)
             \/ Normal(p.future) /\ Normal(p.present)

\* one more period: the sum of the terms, the sum of their magnitudes, and
\* whether every period so far was tame
AuditStep(acc, v, g, p) ==
    [sum  |-> FAdd(acc.sum, p.present),
     mag  |-> FAdd(acc.mag, FAbs(p.present)),
     tame |-> acc.tame /\ TamePeriod(v, g, p)]

AuditsWith(accs, v, g, periods) ==
    {AuditStep(acc, v, g, p) : acc \in accs, p \in periods}

\* intrinsic_value(v, g, d, n) recomputed period by period, in every way the
\* outcomes of powf allow
RECURSIVE Audits(_, _, _, _)
Audits(v, g, d, n) ==
    IF n = 0 THEN {[sum |-> Zero, mag |-> Zero, tame |-> TRUE]}
    ELSE AuditsWith(Audits(v, g, d, n - 1), v, g, PeriodsOf(v, g, d, n))

\* no step of the audited call overflowed or underflowed
Tame(a) == a.tame /\ IsFinite(a.sum)

\* 2^-52, the distance from 1.0 to the next f64
Epsilon == [k |-> "fin", s |-> 1, m |-> <<0, 0, 0, 1024>>, e |-> -104]

\* the rounding allowed to a sum of n terms of total magnitude mag
Tolerance(n, mag) == FMul(FMul(FromU32(2 * n + 8), Epsilon), mag)

\* the call with k * v, audited as a, against k times the value returned
ScaledClose(a, scaled) ==
    (Tame(a) /\ IsFinite(scaled)) => Close(a.sum, scaled, Tolerance(years, a.mag))

ScaledBy(k, kv) ==
    (IsZero(k) \/ IsZero(args[1]) \/ Normal(kv)) =>
        \A a \in Audits(kv, args[2], args[3], years) :
            ScaledClose(a, FMul(k, ret.val))

ScalesWith(k) == ScaledBy(k, FMul(k, args[1]))

\* years * v, for equal rates
EqualRates(product) ==
    (args[2] = args[3] /\ IsFinite(product)) =>
        Close(ret.val, product, Tolerance(years, FAbs(product)))

\* the call that returned overflowed or underflowed at no step, whatever the
\* outcomes of its powf calls
TameCall == \A a \in Audits(args[1], args[2], args[3], years) : Tame(a)

\* C10, amended: as long as no intermediate result overflows or underflows,
\* with growth_rate = discount_rate # -1 intrinsic_value(v, r, r, years)
\* agrees with years * v up to rounding, within (2 * years + 8) * 2^-52
\* times years * |v|; and whenever d # -1, intrinsic_value(0, g, d, years)
\* = 0 and intrinsic_value(k * v, g, d, years) agrees with k *
\* intrinsic_value(v, g, d, years) within (2 * years + 8) * 2^-52 times the
\* sum of the magnitudes of the terms of intrinsic_value(k * v, g, d, years).
C10_Amended ==
    (/\ Returned("intrinsic_value")
     /\ args[3] # Lit(-1, 1)
     /\ TameCall) =>
        /\ EqualRates(FMul(FromU32(years), args[1]))
        /\ IsZero(args[1]) => IsZero(ret.val)
        /\ \A k \in Scales : ScalesWith(k)

\* the call with 3/2 times the earnings, audited as a, is tame and its value
\* is not 3/2 times the value returned: the two differ by a rounding
RoundedApart(a, scaled) == Tame(a) /\ IsFinite(scaled) /\ a.sum # scaled

ApartBy(k) ==
    \E a \in Audits(FMul(k, args[1]), args[2], args[3], years) :
        RoundedApart(a, FMul(k, ret.val))

C10_Witness ==
    /\ Returned("intrinsic_value")
    /\ years = MaxYears
    /\ args[3] # Lit(-1, 1)
    /\ TameCall
    /\ ApartBy(Lit(3, 2))
    /\ ScalesWith(Lit(3, 2))

====
